---------------------------- MODULE Spec2Model ----------------------------
(***************************************************************************)
(* A model of app/main.py: the route table the decorators build, the       *)
(* parameter declarations of every endpoint, the endpoint bodies, and the  *)
(* request pipeline (route, validate, invoke or reject) they run under.    *)
(*                                                                         *)
(* Text is a sequence of glyphs.  A glyph is a one-character string, or a  *)
(* whole word where the program only ever compares the word for equality   *)
(* (a path literal such as "users", an enumeration member, a message).     *)
(***************************************************************************)
EXTENDS Integers, Sequences, FiniteSets, TLC

(***************************************************************************)
(* Bounds of the model.                                                    *)
(***************************************************************************)
\* how far past each numeric limit of a declaration the inputs reach
Span == 1
\* the longest tail (segments after the first) of a probed path
MaxTail == 2

(***************************************************************************)
(* Text and the conversions the parameter annotations ask for.             *)
(***************************************************************************)
Digits == {"0", "1", "2", "3", "4", "5", "6", "7", "8", "9"}

DigitVal(g) ==
    CASE g = "0" -> 0 [] g = "1" -> 1 [] g = "2" -> 2 [] g = "3" -> 3
      [] g = "4" -> 4 [] g = "5" -> 5 [] g = "6" -> 6 [] g = "7" -> 7
      [] g = "8" -> 8 [] g = "9" -> 9

DigitGlyph(d) ==
    CASE d = 0 -> "0" [] d = 1 -> "1" [] d = 2 -> "2" [] d = 3 -> "3"
      [] d = 4 -> "4" [] d = 5 -> "5" [] d = 6 -> "6" [] d = 7 -> "7"
      [] d = 8 -> "8" [] d = 9 -> "9"

AllDigits(t) == \A i \in 1..Len(t) : t[i] \in Digits

RECURSIVE DigitsValue(_)
DigitsValue(t) ==
    IF t = <<>> THEN 0
    ELSE 10 * DigitsValue(SubSeq(t, 1, Len(t) - 1)) + DigitVal(t[Len(t)])

RECURSIVE NatText(_)
NatText(n) ==
    IF n < 10 THEN <<DigitGlyph(n)>>
    ELSE Append(NatText(n \div 10), DigitGlyph(n % 10))

\* str(n): how a client writes the integer n in a path or a query string
IntText(n) == IF n < 0 THEN <<"-">> \o NatText(-n) ELSE NatText(n)

Unsigned(t) == IF t # <<>> /\ t[1] = "-" THEN Tail(t) ELSE t

\* the annotation int: int(text) succeeds on an optional sign and digits
IsIntText(t) == Unsigned(t) # <<>> /\ AllDigits(Unsigned(t))

ParseInt(t) ==
    IF t # <<>> /\ t[1] = "-" THEN -DigitsValue(Tail(t)) ELSE DigitsValue(t)

\* A float is m / 10^e, kept with no trailing zero in its fraction.
RECURSIVE Pow10(_)
Pow10(e) == IF e = 0 THEN 1 ELSE 10 * Pow10(e - 1)

RECURSIVE Normal(_)
Normal(f) ==
    IF f.e > 0 /\ f.m % 10 = 0 THEN Normal([m |-> f.m \div 10, e |-> f.e - 1])
    ELSE f

Flt(m, e) == Normal([m |-> m, e |-> e])

DotAt(t) ==
    IF \E i \in 1..Len(t) : t[i] = "."
    THEN CHOOSE i \in 1..Len(t) : t[i] = "." /\ \A j \in 1..(i - 1) : t[j] # "."
    ELSE 0

WholePart(t) == IF DotAt(t) = 0 THEN t ELSE SubSeq(t, 1, DotAt(t) - 1)
FracPart(t)  == IF DotAt(t) = 0 THEN <<>> ELSE SubSeq(t, DotAt(t) + 1, Len(t))

\* the annotation float: float(text) on sign, digits and one optional point
IsFloatText(t) ==
    LET u == Unsigned(t) IN
    /\ AllDigits(WholePart(u))
    /\ AllDigits(FracPart(u))
    /\ WholePart(u) \o FracPart(u) # <<>>

ParseFloat(t) ==
    LET u == Unsigned(t)
        mag == DigitsValue(WholePart(u) \o FracPart(u))
    IN  Flt(IF t # <<>> /\ t[1] = "-" THEN -mag ELSE mag, Len(FracPart(u)))

\* a <= b on floats
FltLe(a, b) == a.m * Pow10(b.e) <= b.m * Pow10(a.e)

FltOfInt(n) == [m |-> n, e |-> 0]

FltAdd(a, b) ==
    LET e == IF a.e > b.e THEN a.e ELSE b.e
    IN  Flt(a.m * Pow10(e - a.e) + b.m * Pow10(e - b.e), e)

\* the annotation bool: the words the validator reads as true or false
TrueWords  == {<<"1">>, <<"true">>, <<"on">>, <<"yes">>}
FalseWords == {<<"0">>, <<"false">>, <<"off">>, <<"no">>}
IsBoolText(t) == t \in TrueWords \cup FalseWords
ParseBool(t) == t \in TrueWords

\* len(text): a word glyph is only length-checked where it is "fixedquery"
Width(g) == IF g = "fixedquery" THEN 10 ELSE 1

RECURSIVE TextLen(_)
TextLen(t) == IF t = <<>> THEN 0 ELSE Width(Head(t)) + TextLen(Tail(t))

(***************************************************************************)
(* Values handed to the endpoints.  An Optional[...] value is None or      *)
(* Some(v).                                                                *)
(***************************************************************************)
None == <<>>
Some(v) == <<v>>
\* Python truthiness of an Optional[str]: None and "" are falsy
Truthy(q) == q # None /\ q[1] # <<>>

\* class ModelName(str, Enum)
ModelName == {<<"alexnet">>, <<"resnet">>, <<"lenet">>}

\* fake_items_db as the module builds it
FakeItemsDb ==
    << [item_name |-> <<"Foo1">>], [item_name |-> <<"Bar2">>],
       [item_name |-> <<"Baz3">>], [item_name |-> <<"Hay4">>] >>

(***************************************************************************)
(* Parameter declarations.  A limit that is not declared is the empty set. *)
(***************************************************************************)
Param(name, src, type) ==
    [name |-> name, alias |-> name, src |-> src, type |-> type,
     required |-> TRUE, optional |-> FALSE, default |-> None,
     ge |-> {}, le |-> {}, gt |-> {},
     min_length |-> {}, max_length |-> {}, regex |-> {}, embed |-> FALSE]

\* name: type = default: a parameter with a default value is not required
Dflt(name, src, type, default) ==
    [Param(name, src, type) EXCEPT !.required = FALSE, !.default = default]

\* name: Optional[type] = None
Opt(name, src, type) ==
    [Param(name, src, type) EXCEPT
        !.required = FALSE, !.optional = TRUE, !.default = None]

\* class Item / class BodyItem: name, description, price, tax
ItemFields ==
    << Param("name", "field", "str"),
       Opt("description", "field", "str"),
       Param("price", "field", "float"),
       Opt("tax", "field", "float") >>

\* class BodyUser: username, full_name
BodyUserFields ==
    << Param("username", "field", "str"),
       Opt("full_name", "field", "str") >>

ModelFields(type) ==
    IF type = "BodyUser" THEN BodyUserFields ELSE ItemFields

IsModelType(type) == type \in {"Item", "BodyItem", "BodyUser"}

(***************************************************************************)
(* Path patterns: a literal segment, a {name} segment, a {name:path} rest. *)
(***************************************************************************)
Lit(w)  == [k |-> "lit", v |-> w]
Var(n)  == [k |-> "param", v |-> n]
Rest(n) == [k |-> "path", v |-> n]

\* the text of a literal segment; "" is the segment after a trailing slash
LitText(w) == IF w = "" THEN <<>> ELSE <<w>>

Route(method, path, endpoint, params) ==
    [method |-> method, path |-> path, endpoint |-> endpoint, params |-> params]

(***************************************************************************)
(* The declarations of the endpoints, in the order of the file.            *)
(***************************************************************************)
\* FastAPI() registers the schema and documentation pages first
DocRoutes ==
    << Route("GET", <<Lit("openapi.json")>>, "openapi", <<>>),
       Route("GET", <<Lit("docs")>>, "swagger_ui_html", <<>>),
       Route("GET", <<Lit("docs"), Lit("oauth2-redirect")>>, "swagger_ui_redirect", <<>>),
       Route("GET", <<Lit("redoc")>>, "redoc_html", <<>>) >>

\* stacked decorators apply bottom-up: /hello_world is registered before /
HelloRoutes ==
    << Route("GET", <<Lit("hello_world")>>, "hello_world", <<>>),
       Route("GET", <<Lit("")>>, "hello_world", <<>>) >>

ItemsRoute ==
    Route("GET", <<Lit("items"), Lit("")>>, "read_item_slice",
          << Dflt("skip", "query", "int", 0), Dflt("limit", "query", "int", 10) >>)

ItemRoute ==
    Route("GET", <<Lit("items"), Var("item_id")>>, "read_item",
          << Param("item_id", "path", "str"),
             Opt("q", "query", "str"),
             Dflt("short", "query", "bool", FALSE) >>)

UsersMeRoute == Route("GET", <<Lit("users"), Lit("me")>>, "read_user_me", <<>>)

UserRoute ==
    Route("GET", <<Lit("users"), Var("user_id")>>, "read_user",
          << Param("user_id", "path", "str") >>)

\* the route declared with app.put
ModelRoutePut ==
    Route("PUT", <<Lit("models"), Var("model_name")>>, "get_model",
          << Param("model_name", "path", "enum") >>)

ModelRoute ==
    Route("GET", <<Lit("models"), Var("model_name")>>, "get_model",
          << Param("model_name", "path", "enum") >>)

FileRoute ==
    Route("GET", <<Lit("files"), Rest("file_path")>>, "read_file",
          << Param("file_path", "path", "str") >>)

UserItemRoute ==
    Route("GET", <<Lit("users_multi"), Var("user_id"), Lit("items"), Var("item_id")>>,
          "read_user_item",
          << Param("user_id", "path", "int"),
             Param("item_id", "path", "str"),
             Opt("q", "query", "str"),
             Dflt("short", "query", "bool", FALSE) >>)

CreateItemRoute ==
    Route("POST", <<Lit("items"), Lit("")>>, "create_item",
          << Param("item", "body", "Item") >>)

PutItemRoute ==
    Route("PUT", <<Lit("items"), Var("item_id")>>, "create_item_put",
          << Param("item_id", "path", "int"),
             Param("item", "body", "Item"),
             Opt("q", "query", "str") >>)

ItemsV2Route ==
    Route("GET", <<Lit("itemsv2"), Lit("")>>, "read_items_v2",
          << [Param("q", "query", "str") EXCEPT
                 !.optional = TRUE, !.min_length = {3}, !.max_length = {50}] >>)

ItemsV3Route ==
    Route("GET", <<Lit("itemsv3"), Lit("")>>, "read_items_v3",
          << Opt("q", "query", "liststr") >>)

ItemsV4Route ==
    Route("GET", <<Lit("itemsv4"), Lit("")>>, "read_items_v4",
          << Dflt("q", "query", "liststr", << <<"foo">>, <<"bar">> >>) >>)

ItemsV5Route ==
    Route("GET", <<Lit("itemsv5"), Lit("")>>, "read_items_v5",
          << [Opt("q", "query", "str") EXCEPT !.min_length = {3}] >>)

ItemsV6Route ==
    Route("GET", <<Lit("itemsv6"), Lit("")>>, "read_items_v6",
          << [Opt("q", "query", "str") EXCEPT !.alias = "item-query"] >>)

ItemsV7Route ==
    Route("GET", <<Lit("itemsv7"), Lit("")>>, "read_items_v7",
          << [Opt("q", "query", "str") EXCEPT
                 !.alias = "item-query", !.min_length = {3}, !.max_length = {50},
                 !.regex = {<<"fixedquery">>}] >>)

PathItemsRoute ==
    Route("GET", <<Lit("path_items"), Var("item_id")>>, "read_items_path",
          << Param("item_id", "path", "int"),
             [Opt("q", "query", "str") EXCEPT !.alias = "item-query"] >>)

\* the lower limit of item_id copied from the next endpoint: ge=0
PathItemsV1RouteGe0 ==
    Route("GET", <<Lit("path_items_v1"), Var("item_id")>>, "read_items_path_v1",
          << [Param("item_id", "path", "int") EXCEPT !.ge = {0}, !.le = {1000}],
             Param("q", "query", "str") >>)

PathItemsV1Route ==
    Route("GET", <<Lit("path_items_v1"), Var("item_id")>>, "read_items_path_v1",
          << [Param("item_id", "path", "int") EXCEPT !.ge = {1}, !.le = {1000}],
             Param("q", "query", "str") >>)

\* q declared as in the earlier endpoints: Optional[str] = None
PathItemsV2RouteOptionalQ ==
    Route("GET", <<Lit("path_items_v2"), Var("item_id")>>, "read_items_path_v2",
          << [Param("item_id", "path", "int") EXCEPT !.ge = {0}, !.le = {1000}],
             Opt("q", "query", "str"),
             [Param("size", "query", "float") EXCEPT
                 !.ge = {Flt(11, 1)}, !.le = {Flt(105, 1)}] >>)

PathItemsV2Route ==
    Route("GET", <<Lit("path_items_v2"), Var("item_id")>>, "read_items_path_v2",
          << [Param("item_id", "path", "int") EXCEPT !.ge = {0}, !.le = {1000}],
             Param("q", "query", "str"),
             [Param("size", "query", "float") EXCEPT
                 !.ge = {Flt(11, 1)}, !.le = {Flt(105, 1)}] >>)

BodyItemsRoute ==
    Route("PUT", <<Lit("body_items"), Var("item_id")>>, "update_item_body",
          << [Param("item_id", "path", "int") EXCEPT !.ge = {0}, !.le = {1000}],
             Opt("q", "query", "str"),
             Opt("item", "body", "BodyItem") >>)

BodyItemsV1Route ==
    Route("PUT", <<Lit("body_items_v1"), Var("item_id")>>, "update_item_body_v1",
          << Param("item_id", "path", "int"),
             Param("item", "body", "BodyItem"),
             Param("user", "body", "BodyUser") >>)

BodyItemsV2Route ==
    Route("PUT", <<Lit("body_items_v2"), Var("item_id")>>, "update_item_body_v2",
          << Param("item_id", "path", "int"),
             Param("item", "body", "BodyItem"),
             Param("user", "body", "BodyUser"),
             Param("importance", "body", "int") >>)

\* importance declared without its limit: Body(...)
BodyItemsV3RouteNoGt ==
    Route("PUT", <<Lit("body_items_v3"), Var("item_id")>>, "update_item_body_v3",
          << Param("item_id", "path", "int"),
             Param("item", "body", "BodyItem"),
             Param("user", "body", "BodyUser"),
             Param("importance", "body", "int"),
             Opt("q", "query", "str") >>)

BodyItemsV3Route ==
    Route("PUT", <<Lit("body_items_v3"), Var("item_id")>>, "update_item_body_v3",
          << Param("item_id", "path", "int"),
             Param("item", "body", "BodyItem"),
             Param("user", "body", "BodyUser"),
             [Param("importance", "body", "int") EXCEPT !.gt = {0}],
             Opt("q", "query", "str") >>)

\* the body parameter declared without embed
BodyItemsV4RouteNoEmbed ==
    Route("PUT", <<Lit("body_items_v4"), Var("item_id")>>, "update_item_body_v4",
          << Param("item_id", "path", "int"),
             Param("item", "body", "BodyItem") >>)

BodyItemsV4Route ==
    Route("PUT", <<Lit("body_items_v4"), Var("item_id")>>, "update_item_body_v4",
          << Param("item_id", "path", "int"),
             [Param("item", "body", "BodyItem") EXCEPT !.embed = TRUE] >>)

\* the two /users routes declared in the other order
RoutesUserFirst ==
    DocRoutes \o HelloRoutes \o
    << ItemsRoute, ItemRoute, UserRoute, UsersMeRoute, ModelRoute, FileRoute,
       UserItemRoute, CreateItemRoute, PutItemRoute,
       ItemsV2Route, ItemsV3Route, ItemsV4Route, ItemsV5Route, ItemsV6Route,
       ItemsV7Route, PathItemsRoute, PathItemsV1Route, PathItemsV2Route,
       BodyItemsRoute, BodyItemsV1Route, BodyItemsV2Route, BodyItemsV3Route,
       BodyItemsV4Route >>

\* app.routes after the module is imported
Routes ==
    DocRoutes \o HelloRoutes \o
    << ItemsRoute, ItemRoute, UsersMeRoute, UserRoute, ModelRoute, FileRoute,
       UserItemRoute, CreateItemRoute, PutItemRoute,
       ItemsV2Route, ItemsV3Route, ItemsV4Route, ItemsV5Route, ItemsV6Route,
       ItemsV7Route, PathItemsRoute, PathItemsV1Route, PathItemsV2Route,
       BodyItemsRoute, BodyItemsV1Route, BodyItemsV2Route, BodyItemsV3Route,
       BodyItemsV4Route >>

(***************************************************************************)
(* Routing: the first route whose path and method match handles the        *)
(* request; failing that the first route whose path alone matches answers  *)
(* 405; failing that a route matching the path with its trailing slash     *)
(* toggled answers with a redirect; failing that 404.                      *)
(***************************************************************************)
RECURSIVE PathMatches(_, _)
PathMatches(pattern, path) ==
    IF pattern = <<>> THEN path = <<>>
    ELSE IF path = <<>> THEN FALSE
    ELSE LET e == Head(pattern) IN
         CASE e.k = "lit"   -> /\ Head(path) = LitText(e.v)
                               /\ PathMatches(Tail(pattern), Tail(path))
           [] e.k = "param" -> /\ Head(path) # <<>>
                               /\ PathMatches(Tail(pattern), Tail(path))
           [] e.k = "path"  -> TRUE

RECURSIVE Join(_)
Join(segs) ==
    IF Len(segs) = 1 THEN segs[1]
    ELSE segs[1] \o <<"/">> \o Join(Tail(segs))

\* the value of the placeholder at position i of a matching pattern
Placeholder(pattern, path, i) ==
    IF pattern[i].k = "path" THEN Join(SubSeq(path, i, Len(path))) ELSE path[i]

\* the path parameters of a match, by name
PathParams(pattern, path) ==
    LET at == {i \in 1..Len(pattern) : pattern[i].k # "lit"} IN
    [n \in {pattern[i].v : i \in at} |->
        Placeholder(pattern, path, CHOOSE i \in at : pattern[i].v = n)]

RECURSIVE StripSlashes(_)
StripSlashes(path) ==
    IF path # <<>> /\ path[Len(path)] = <<>>
    THEN StripSlashes(SubSeq(path, 1, Len(path) - 1))
    ELSE path

\* the path the router retries with: trailing slashes removed, or one added
ToggleSlash(path) ==
    IF path[Len(path)] = <<>> THEN StripSlashes(path) ELSE Append(path, <<>>)

IsRoot(path) == path = << <<>> >>

Full(rs, req) ==
    {i \in 1..Len(rs) : rs[i].method = req.method /\ PathMatches(rs[i].path, req.path)}

Partial(rs, req) == {i \in 1..Len(rs) : PathMatches(rs[i].path, req.path)}

Least(S) == CHOOSE i \in S : \A j \in S : i <= j

Dispatch(rs, req) ==
    IF Full(rs, req) # {} THEN [kind |-> "full", idx |-> Least(Full(rs, req))]
    ELSE IF Partial(rs, req) # {}
         THEN [kind |-> "partial", idx |-> Least(Partial(rs, req))]
    ELSE IF /\ ~IsRoot(req.path)
            /\ Partial(rs, [req EXCEPT !.path = ToggleSlash(req.path)]) # {}
         THEN [kind |-> "redirect", idx |-> 0]
    ELSE [kind |-> "none", idx |-> 0]

(***************************************************************************)
(* Request bodies: JSON values.                                            *)
(***************************************************************************)
NoFields == [k \in {} |-> 0]
JSON(t, n, s, f) == [t |-> t, n |-> n, s |-> s, f |-> f]
JAbsent  == JSON("absent", FltOfInt(0), <<>>, NoFields)
JNull    == JSON("null", FltOfInt(0), <<>>, NoFields)
JNum(x)  == JSON("num", x, <<>>, NoFields)
JStr(x)  == JSON("str", FltOfInt(0), x, NoFields)
JArr     == JSON("arr", FltOfInt(0), <<>>, NoFields)
JObj(f)  == JSON("obj", FltOfInt(0), <<>>, f)
\* bytes that are not JSON
Malformed == JSON("malformed", FltOfInt(0), <<>>, NoFields)

Get(o, k) == IF k \in DOMAIN o.f THEN o.f[k] ELSE JAbsent
IsNone(v) == v.t \in {"absent", "null"}

(***************************************************************************)
(* Validation of one value against its declaration.                        *)
(***************************************************************************)
Ok(v)   == [ok |-> TRUE, value |-> v, err |-> ""]
Bad(e)  == [ok |-> FALSE, value |-> None, err |-> e]

CheckStr(p, t) ==
    IF \E n \in p.min_length : TextLen(t) < n THEN Bad("value_error.any_str.min_length")
    ELSE IF \E n \in p.max_length : TextLen(t) > n THEN Bad("value_error.any_str.max_length")
    ELSE IF \E r \in p.regex : t # r THEN Bad("value_error.str.regex")
    ELSE Ok(t)

CheckInt(p, n) ==
    IF \E b \in p.gt : ~(n > b) THEN Bad("value_error.number.not_gt")
    ELSE IF \E b \in p.ge : ~(n >= b) THEN Bad("value_error.number.not_ge")
    ELSE IF \E b \in p.le : ~(n <= b) THEN Bad("value_error.number.not_le")
    ELSE Ok(n)

CheckFloat(p, x) ==
    IF \E b \in p.ge : ~FltLe(b, x) THEN Bad("value_error.number.not_ge")
    ELSE IF \E b \in p.le : ~FltLe(x, b) THEN Bad("value_error.number.not_le")
    ELSE Ok(x)

\* a path segment or a query value, which arrives as text
CheckText(p, t) ==
    CASE p.type = "str"   -> CheckStr(p, t)
      [] p.type = "int"   -> IF IsIntText(t) THEN CheckInt(p, ParseInt(t))
                             ELSE Bad("type_error.integer")
      [] p.type = "float" -> IF IsFloatText(t) THEN CheckFloat(p, ParseFloat(t))
                             ELSE Bad("type_error.float")
      [] p.type = "bool"  -> IF IsBoolText(t) THEN Ok(ParseBool(t))
                             ELSE Bad("type_error.bool")
      [] p.type = "enum"  -> IF t \in ModelName THEN Ok(t)
                             ELSE Bad("type_error.enum")

\* a JSON value of a body or of a model's field
CheckJson(p, v) ==
    CASE p.type = "str"   -> IF v.t = "str" THEN CheckStr(p, v.s)
                             ELSE Bad("type_error.str")
      [] p.type = "int"   -> IF v.t = "num" /\ v.n.e = 0 THEN CheckInt(p, v.n.m)
                             ELSE IF v.t = "str" /\ IsIntText(v.s)
                                  THEN CheckInt(p, ParseInt(v.s))
                             ELSE Bad("type_error.integer")
      [] p.type = "float" -> IF v.t = "num" THEN CheckFloat(p, v.n)
                             ELSE IF v.t = "str" /\ IsFloatText(v.s)
                                  THEN CheckFloat(p, ParseFloat(v.s))
                             ELSE Bad("type_error.float")

\* what the endpoint receives for a declaration: Optional[...] values wrapped
Given(p, v) == IF p.optional THEN Some(v) ELSE v

Error(loc, type) == [loc |-> loc, type |-> type]

\* a value that did not arrive: the default, or an error when required
Missing(p, loc) ==
    IF p.required
    THEN [value |-> None, errors |-> <<Error(loc, "value_error.missing")>>]
    ELSE [value |-> p.default, errors |-> <<>>]

Checked(p, loc, r) ==
    IF r.ok THEN [value |-> Given(p, r.value), errors |-> <<>>]
    ELSE [value |-> None, errors |-> <<Error(loc, r.err)>>]

(***************************************************************************)
(* Validation of a request against the declarations of its route.          *)
(***************************************************************************)
RECURSIVE Concat(_)
Concat(ss) == IF ss = <<>> THEN <<>> ELSE Head(ss) \o Concat(Tail(ss))

PathResult(p, pathvals) ==
    Checked(p, <<"path", p.alias>>, CheckText(p, pathvals[p.name]))

\* a scalar reads the last value given for its name, a list reads them all
QueryResult(p, query) ==
    LET vs  == query[p.alias]
        loc == <<"query", p.alias>>
    IN  IF vs = <<>> THEN Missing(p, loc)
        ELSE IF p.type = "liststr" THEN [value |-> Given(p, vs), errors |-> <<>>]
        ELSE Checked(p, loc, CheckText(p, vs[Len(vs)]))

FieldResult(f, v, loc) ==
    IF v.t = "absent" THEN Missing(f, loc)
    ELSE IF v.t = "null"
         THEN IF f.optional THEN [value |-> None, errors |-> <<>>]
              ELSE [value |-> None,
                    errors |-> <<Error(loc, "type_error.none.not_allowed")>>]
    ELSE Checked(f, loc, CheckJson(f, v))

\* a BaseModel: every field is validated, every failing field is reported
ModelResult(p, v, loc) ==
    IF v.t # "obj"
    THEN [value |-> None, errors |-> <<Error(loc, "type_error.dict")>>]
    ELSE LET fs  == ModelFields(p.type)
             res == [i \in 1..Len(fs) |->
                        FieldResult(fs[i], Get(v, fs[i].name), Append(loc, fs[i].name))]
             obj == [n \in {fs[i].name : i \in 1..Len(fs)} |->
                        res[CHOOSE i \in 1..Len(fs) : fs[i].name = n].value]
             es  == Concat([i \in 1..Len(fs) |-> res[i].errors])
         IN  [value |-> IF es = <<>> THEN Given(p, obj) ELSE None, errors |-> es]

BodyParams(params) == SelectSeq(params, LAMBDA p : p.src = "body")

\* a lone body parameter without embed is the body itself
AliasOmitted(params) ==
    Len(BodyParams(params)) = 1 /\ ~BodyParams(params)[1].embed

BodyResult(p, body, omitted) ==
    LET loc == IF omitted THEN <<"body">> ELSE <<"body", p.alias>> IN
    IF IsNone(body) THEN Missing(p, loc)
    ELSE IF ~omitted /\ body.t # "obj"
         THEN [value |-> None, errors |-> <<Error(loc, "value_error.missing")>>]
    ELSE LET v == IF omitted THEN body ELSE Get(body, p.alias) IN
         IF IsNone(v) THEN Missing(p, loc)
         ELSE IF IsModelType(p.type) THEN ModelResult(p, v, loc)
         ELSE Checked(p, loc, CheckJson(p, v))

ParamResult(route, req, p) ==
    CASE p.src = "path"  -> PathResult(p, PathParams(route.path, req.path))
      [] p.src = "query" -> QueryResult(p, req.query)
      [] p.src = "body"  -> BodyResult(p, req.body, AliasOmitted(route.params))

\* errors are gathered from the path, then the query, then the body
SourceErrors(route, req, src) ==
    LET ps == SelectSeq(route.params, LAMBDA p : p.src = src)
    IN  Concat([i \in 1..Len(ps) |-> ParamResult(route, req, ps[i]).errors])

Validate(route, req) ==
    LET ps == route.params IN
    [args   |-> [n \in {ps[i].name : i \in 1..Len(ps)} |->
                    ParamResult(route, req,
                                ps[CHOOSE i \in 1..Len(ps) : ps[i].name = n]).value],
     errors |-> SourceErrors(route, req, "path") \o SourceErrors(route, req, "query")
                \o SourceErrors(route, req, "body")]

\* the body is read and parsed only for a route that declares a body
ReadsBody(route) == BodyParams(route.params) # <<>>

(***************************************************************************)
(* The endpoints.  a is the validated argument set.                        *)
(***************************************************************************)
\* dict.update: the keys of u replace or extend those of d
Update(d, u) == u @@ d
WithQ(d, q) == IF Truthy(q) THEN Update(d, [q |-> q[1]]) ELSE d

ItemsFooBar == << [item_id |-> <<"Foo">>], [item_id |-> <<"Bar">>] >>

hello_world == [message |-> <<"Hello World, E!">>]

\* Python's s[i:j] on a sequence of length n
Clamp(i, n) == IF i < 0 THEN (IF i + n < 0 THEN 0 ELSE i + n)
               ELSE (IF i > n THEN n ELSE i)
Slice(s, i, j) == SubSeq(s, Clamp(i, Len(s)) + 1, Clamp(j, Len(s)))

\* the slice written fake_items_db[skip: limit]
read_item_slice_no_offset(a, db) ==
    [result |-> Slice(db, a.skip, a.limit), db |-> db]

\* the slice taken out of the list: del fake_items_db[skip: skip + limit]
read_item_slice_consuming(a, db) ==
    [result |-> Slice(db, a.skip, a.skip + a.limit),
     db |-> SubSeq(db, 1, Clamp(a.skip, Len(db))) \o
            SubSeq(db, IF Clamp(a.skip + a.limit, Len(db)) < Clamp(a.skip, Len(db))
                       THEN Clamp(a.skip, Len(db)) + 1
                       ELSE Clamp(a.skip + a.limit, Len(db)) + 1, Len(db))]

read_item_slice(a, db) ==
    [result |-> Slice(db, a.skip, a.skip + a.limit), db |-> db]

\* the else branch left out, as in read_user_item
read_item_no_else(a) ==
    LET item == WithQ([item_id |-> a.item_id], a.q) IN
    IF ~a.short
    THEN Update(item, [description |->
                          <<"This is an amazing item that has a long description">>])
    ELSE item

read_item(a) ==
    LET item == WithQ([item_id |-> a.item_id], a.q) IN
    IF ~a.short
    THEN Update(item, [description |->
                          <<"This is an amazing item that has a long description">>])
    ELSE Update(item, [description |-> <<"short description">>])

read_user_me == [user_id |-> <<"the current user">>]

read_user(a) == [user_id |-> a.user_id]

\* the second comparison misspelt, so that lenet falls through
get_model_typo(a) ==
    IF a.model_name = <<"alexnet">>
    THEN [model_name |-> a.model_name, message |-> <<"Deep Learning FTW!">>]
    ELSE IF a.model_name = <<"le_net">>
    THEN [model_name |-> a.model_name, message |-> <<"LeCNN all the images">>]
    ELSE [model_name |-> a.model_name, message |-> <<"Have some residuals">>]

get_model(a) ==
    IF a.model_name = <<"alexnet">>
    THEN [model_name |-> a.model_name, message |-> <<"Deep Learning FTW!">>]
    ELSE IF a.model_name = <<"lenet">>
    THEN [model_name |-> a.model_name, message |-> <<"LeCNN all the images">>]
    ELSE [model_name |-> a.model_name, message |-> <<"Have some residuals">>]

read_file(a) == [file_path |-> a.file_path]

read_user_item(a) ==
    LET item == WithQ([item_id |-> a.item_id, owner_id |-> a.user_id], a.q) IN
    IF ~a.short
    THEN Update(item, [description |->
                          <<"This is an amazing item that has a long description">>])
    ELSE item

create_item(a) ==
    IF a.item.tax # None /\ a.item.tax[1].m # 0
    THEN Update(a.item, [price_with_tax |-> FltAdd(a.item.price, a.item.tax[1])])
    ELSE a.item

create_item_put(a) == WithQ(Update([item_id |-> a.item_id], a.item), a.q)

read_items_q(a) == WithQ([items |-> ItemsFooBar], a.q)

read_items_list(a) == [q |-> a.q]

read_items_path(a) == WithQ([item_id |-> a.item_id], a.q)

read_items_path_v1(a) == WithQ([item_id |-> a.item_id], Some(a.q))

read_items_path_v2(a) ==
    WithQ([item_id |-> a.item_id, size |-> a.size], Some(a.q))

update_item_body(a) ==
    LET results == WithQ([item_id |-> a.item_id], a.q) IN
    IF a.item # None THEN Update(results, [item |-> a.item[1]]) ELSE results

update_item_body_v1(a) ==
    [item_id |-> a.item_id, item |-> a.item, user |-> a.user]

update_item_body_v2(a) ==
    [item_id |-> a.item_id, item |-> a.item, user |-> a.user,
     importance |-> a.importance]

update_item_body_v3(a) ==
    WithQ([item_id |-> a.item_id, item |-> a.item, user |-> a.user,
           importance |-> a.importance], a.q)

update_item_body_v4(a) == [item_id |-> a.item_id, item |-> a.item]

\* what the endpoint returns, and fake_items_db after it ran
Call(endpoint, a, db) ==
    LET pure(r) == [result |-> r, db |-> db] IN
    CASE endpoint = "hello_world"         -> pure(hello_world)
      [] endpoint = "read_item_slice"     -> read_item_slice(a, db)
      [] endpoint = "read_item"           -> pure(read_item(a))
      [] endpoint = "read_user_me"        -> pure(read_user_me)
      [] endpoint = "read_user"           -> pure(read_user(a))
      [] endpoint = "get_model"           -> pure(get_model(a))
      [] endpoint = "read_file"           -> pure(read_file(a))
      [] endpoint = "read_user_item"      -> pure(read_user_item(a))
      [] endpoint = "create_item"         -> pure(create_item(a))
      [] endpoint = "create_item_put"     -> pure(create_item_put(a))
      [] endpoint \in {"read_items_v2", "read_items_v5", "read_items_v6",
                       "read_items_v7"}   -> pure(read_items_q(a))
      [] endpoint \in {"read_items_v3", "read_items_v4"}
                                          -> pure(read_items_list(a))
      [] endpoint = "read_items_path"     -> pure(read_items_path(a))
      [] endpoint = "read_items_path_v1"  -> pure(read_items_path_v1(a))
      [] endpoint = "read_items_path_v2"  -> pure(read_items_path_v2(a))
      [] endpoint = "update_item_body"    -> pure(update_item_body(a))
      [] endpoint = "update_item_body_v1" -> pure(update_item_body_v1(a))
      [] endpoint = "update_item_body_v2" -> pure(update_item_body_v2(a))
      [] endpoint = "update_item_body_v3" -> pure(update_item_body_v3(a))
      [] endpoint = "update_item_body_v4" -> pure(update_item_body_v4(a))
      [] OTHER                            -> pure([page |-> endpoint])

(***************************************************************************)
(* The requests the model sends.                                           *)
(***************************************************************************)
Methods == {"GET", "POST", "PUT"}

QueryKeys == {"q", "short", "skip", "limit", "size", "item-query"}
NoQuery == [k \in QueryKeys |-> <<>>]
\* a query string that gives each key of vals once, when its value is not None
Query(vals) ==
    [k \in QueryKeys |-> IF k \in DOMAIN vals THEN vals[k] ELSE <<>>]

Request(method, path, query, body) ==
    [method |-> method, path |-> path, query |-> query, body |-> body]

\* texts of n segments over S
RECURSIVE Tuples(_, _)
Tuples(S, n) ==
    IF n = 0 THEN {<<>>}
    ELSE {Append(t, x) : t \in Tuples(S, n - 1), x \in S}

UpTo(S, n) == UNION {Tuples(S, k) : k \in 0..n}

\* the first segments the route table knows, the empty one, and a stranger
Heads ==
    {LitText(Routes[i].path[1].v) : i \in 1..Len(Routes)} \cup {<<"nope">>}

TailSegs == {<<>>, <<"me">>, <<"alexnet">>, <<"3">>, <<"items">>}

ProbePaths == {<<h>> \o t : h \in Heads, t \in UpTo(TailSegs, MaxTail)}

\* every method on every probed path, without query or body
RouteProbe ==
    {Request(m, p, NoQuery, JAbsent) : m \in Methods, p \in ProbePaths}

\* the integers within Span of the limits lo and hi, as a client writes them
Around(lo, hi) ==
    {IntText(n) : n \in ((lo - Span)..(lo + Span)) \cup ((hi - Span)..(hi + Span))}

\* a float m / 10^e as a client writes it, with e digits after the point
FloatText(m, e) ==
    IF e = 0 THEN IntText(m)
    ELSE NatText(m \div Pow10(e)) \o <<".">> \o
         SubSeq(NatText(Pow10(e) + (m % Pow10(e))), 2, e + 1)

AroundTenths(lo, hi) ==
    {FloatText(n, 1) : n \in ((lo - Span)..(lo + Span)) \cup ((hi - Span)..(hi + Span))}

NotNumbers == {<<"x">>, <<>>}
Strings == {<<>>, <<"x">>}
\* None stands for a key the query string does not give
Maybe(S) == {<<t>> : t \in S} \cup {None}

IdTexts(lo, hi) == Around(lo, hi) \cup {<<"5">>, <<"x">>, <<"1", ".", "5">>}

SliceProbe ==
    LET far == Len(FakeItemsDb) + Span
        ns  == Maybe({IntText(n) : n \in (-far)..far} \cup {<<"x">>})
    IN  {Request("GET", << <<"items">>, <<>> >>, Query([skip |-> s, limit |-> l]), JAbsent) :
            s \in ns, l \in ns}

ItemProbe ==
    {Request("GET", << <<"items">>, id >>, Query([q |-> q, short |-> sh]), JAbsent) :
        id \in {<<"5">>, <<"x">>},
        q \in Maybe(Strings),
        sh \in Maybe(TrueWords \cup FalseWords \cup {<<"x">>})}

ModelProbe ==
    {Request("GET", << <<"models">>, m >>, NoQuery, JAbsent) :
        m \in ModelName \cup {<<"x">>, <<"Alexnet">>, <<"lenet", "x">>}}

PathItemsProbe ==
    {Request("GET", << <<"path_items">>, id >>, Query("item-query" :> q), JAbsent) :
        id \in {<<"5">>, <<"x">>}, q \in Maybe(Strings)}

PathItemsV1Probe ==
    {Request("GET", << <<"path_items_v1">>, id >>, Query([q |-> q]), JAbsent) :
        id \in IdTexts(1, 1000), q \in Maybe(Strings)}

PathItemsV2Probe ==
    {Request("GET", << <<"path_items_v2">>, id >>, Query([q |-> q, size |-> sz]), JAbsent) :
        id \in IdTexts(0, 1000),
        q \in Maybe(Strings),
        sz \in Maybe(AroundTenths(11, 105) \cup {<<"5">>} \cup NotNumbers)}

\* query strings for the /itemsv2/ .. /itemsv7/ family, a repeated key included
ItemsVProbe ==
    LET qs == {<<>>, << <<>> >>, << <<"x">> >>, << <<"x", "x", "x">> >>,
               << <<"fixedquery">> >>, << <<"x">>, <<"fixedquery">> >>}
    IN  {Request("GET", << <<h>>, <<>> >>, [NoQuery EXCEPT ![k] = v], JAbsent) :
            h \in {"itemsv2", "itemsv3", "itemsv4", "itemsv5", "itemsv6", "itemsv7"},
            k \in {"q", "item-query"}, v \in qs}

(***************************************************************************)
(* Bodies.                                                                 *)
(***************************************************************************)
\* an object with the keys of f whose value is not absent
Present(f) == JObj([k \in {k \in DOMAIN f : f[k].t # "absent"} |-> f[k]])

Names     == {JAbsent, JNull, JStr(<<"A">>)}
Notes     == {JAbsent, JNull, JStr(<<"d">>)}
Prices    == {JAbsent, JNum(Flt(10, 1)), JNum(Flt(15, 1)), JStr(<<"x">>)}
Taxes     == {JAbsent, JNull, JNum(Flt(0, 0)), JNum(Flt(5, 1)), JStr(<<"x">>)}

ItemObjects ==
    {Present([name |-> n, description |-> d, price |-> p, tax |-> t]) :
        n \in Names, d \in Notes, p \in Prices, t \in Taxes}

GoodItem  == Present([name |-> JStr(<<"A">>), price |-> JNum(Flt(10, 1))])
FewItems  == {GoodItem, Present([name |-> JNull, tax |-> JStr(<<"x">>)]),
              JArr, JAbsent}

UserObjects ==
    {Present([username |-> u, full_name |-> f]) :
        u \in {JAbsent, JStr(<<"u">>)}, f \in {JAbsent, JNull, JStr(<<"U">>)}}
FewUsers  == {Present([username |-> JStr(<<"u">>)]),
              Present([full_name |-> JStr(<<"U">>)]), JAbsent}

Importances ==
    {JNum(FltOfInt(n)) : n \in (0 - Span)..(0 + Span)} \cup
    {JAbsent, JNull, JStr(<<"x">>), JStr(<<"2">>)}

NotObjects == {JAbsent, JNull, JArr, JStr(<<"x">>), Malformed}

\* PUT /body_items_v4/{item_id}: the item under "item", at the top level, or neither
EmbedProbe ==
    {Request("PUT", << <<"body_items_v4">>, id >>, NoQuery, b) :
        id \in {<<"3">>, <<"x">>},
        b \in {Present([item |-> i]) : i \in ItemObjects \cup {JNull, JArr}}
              \cup ItemObjects \cup NotObjects}

\* POST /items/ and PUT /items/{item_id}: the item is the body
FlatProbe ==
    {Request("POST", << <<"items">>, <<>> >>, NoQuery, b) :
        b \in ItemObjects \cup NotObjects \cup {Present([item |-> GoodItem])}}
    \cup
    {Request("PUT", << <<h>>, id >>, Query([q |-> q]), b) :
        h \in {"items", "body_items"}, id \in {<<"3">>, <<"x">>},
        q \in Maybe({<<"x">>}),
        b \in FewItems \cup NotObjects \cup {Present([item |-> GoodItem])}}

\* PUT /body_items_v1 .. v3: several body parameters, each under its name
MultiProbe ==
    {Request("PUT", << <<h>>, id >>, Query([q |-> q]),
             Present([item |-> i, user |-> u, importance |-> n])) :
        h \in {"body_items_v1", "body_items_v2", "body_items_v3"},
        id \in {<<"3">>, <<"x">>}, q \in Maybe({<<"x">>}),
        i \in FewItems, u \in FewUsers, n \in Importances}
    \cup
    {Request("PUT", << <<h>>, <<"3">> >>, NoQuery, b) :
        h \in {"body_items_v1", "body_items_v2", "body_items_v3"},
        b \in NotObjects \cup {GoodItem}}

\* GET /users_multi/{user_id}/items/{item_id}
UserItemProbe ==
    {Request("GET", << <<"users_multi">>, u, <<"items">>, <<"x">> >>,
             Query([q |-> q, short |-> sh]), JAbsent) :
        u \in {<<"5">>, <<"x">>}, q \in Maybe(Strings),
        sh \in Maybe({<<"true">>, <<"x">>})}

Requests ==
    RouteProbe \cup SliceProbe \cup ItemProbe \cup ModelProbe \cup PathItemsProbe
    \cup PathItemsV1Probe \cup PathItemsV2Probe \cup ItemsVProbe \cup UserItemProbe
    \cup EmbedProbe \cup FlatProbe \cup MultiProbe

(***************************************************************************)
(* The server: the application's state and the requests in flight.         *)
(***************************************************************************)
VARIABLES
    fake_items_db,  \* the module-level list
    routes,         \* app.routes
    pc,             \* per worker: idle, routing, matched, validated, done
    req,            \* per worker: the request being served
    route,          \* per worker: the index of the matched route, 0 if none
    solved,         \* per worker: the arguments and errors of validation
    ran,            \* per worker: the endpoint that was invoked, "" if none
    resp,           \* per worker: the response
    memo            \* a finished GET request and its response, kept to compare

vars == <<fake_items_db, routes, pc, req, route, solved, ran, resp, memo>>

Workers == {"w1", "w2"}

NoRequest  == Request("", <<>>, NoQuery, JAbsent)
NoResponse == [status |-> 0, body |-> <<>>]
Unsolved   == [done |-> FALSE, args |-> <<>>, errors |-> <<>>]
Response(status, body) == [status |-> status, body |-> body]

Init ==
    /\ fake_items_db = FakeItemsDb
    /\ routes = Routes
    /\ pc = [w \in Workers |-> "idle"]
    /\ req = [w \in Workers |-> NoRequest]
    /\ route = [w \in Workers |-> 0]
    /\ solved = [w \in Workers |-> Unsolved]
    /\ ran = [w \in Workers |-> ""]
    /\ resp = [w \in Workers |-> NoResponse]
    /\ memo = None

\* a worker takes the next request, one of the set R
Receive(w, R) ==
    /\ pc[w] = "idle"
    /\ pc' = [pc EXCEPT ![w] = "routing"]
    /\ \E r \in R : req' = [req EXCEPT ![w] = r]
    /\ UNCHANGED <<fake_items_db, routes, route, solved, ran, resp, memo>>

\* the response is sent and the worker is free again
Return(w) ==
    /\ pc[w] = "done"
    /\ pc' = [pc EXCEPT ![w] = "idle"]
    /\ req' = [req EXCEPT ![w] = NoRequest]
    /\ route' = [route EXCEPT ![w] = 0]
    /\ solved' = [solved EXCEPT ![w] = Unsolved]
    /\ ran' = [ran EXCEPT ![w] = ""]
    /\ resp' = [resp EXCEPT ![w] = NoResponse]
    /\ UNCHANGED <<fake_items_db, routes, memo>>

Finish(w, r) ==
    /\ pc' = [pc EXCEPT ![w] = "done"]
    /\ resp' = [resp EXCEPT ![w] = r]

\* the router picks the route, or answers itself
Match(w) ==
    /\ pc[w] = "routing"
    /\ LET d == Dispatch(routes, req[w]) IN
       CASE d.kind = "full" ->
                /\ route' = [route EXCEPT ![w] = d.idx]
                /\ pc' = [pc EXCEPT ![w] = "matched"]
                /\ UNCHANGED resp
         [] d.kind = "partial" ->
                Finish(w, Response(405, "Method Not Allowed")) /\ UNCHANGED route
         [] d.kind = "redirect" ->
                Finish(w, Response(307, ToggleSlash(req[w].path))) /\ UNCHANGED route
         [] d.kind = "none" ->
                Finish(w, Response(404, "Not Found")) /\ UNCHANGED route
    /\ UNCHANGED <<fake_items_db, routes, req, solved, ran, memo>>

Unparsable(w) == ReadsBody(routes[route[w]]) /\ req[w].body.t = "malformed"

\* a body that is not JSON ends the request before validation; the status is
\* 400 or 422 depending on the framework release
RefuseBody(w) ==
    /\ pc[w] = "matched"
    /\ Unparsable(w)
    /\ \E status \in {400, 422} : Finish(w, Response(status, "body"))
    /\ UNCHANGED <<fake_items_db, routes, req, route, solved, ran, memo>>

\* every declared parameter is validated, from path, query and body
Solve(w) ==
    /\ pc[w] = "matched"
    /\ ~Unparsable(w)
    /\ LET v == Validate(routes[route[w]], req[w]) IN
       solved' = [solved EXCEPT ![w] = [done |-> TRUE, args |-> v.args,
                                        errors |-> v.errors]]
    /\ pc' = [pc EXCEPT ![w] = "validated"]
    /\ UNCHANGED <<fake_items_db, routes, req, route, ran, resp, memo>>

\* validation errors answer 422 with every error; the endpoint is not run
Reject(w) ==
    /\ pc[w] = "validated"
    /\ solved[w].errors # <<>>
    /\ Finish(w, Response(422, solved[w].errors))
    /\ UNCHANGED <<fake_items_db, routes, req, route, solved, ran, memo>>

\* the endpoint runs with the validated arguments and its result is the body
Invoke(w) ==
    /\ pc[w] = "validated"
    /\ solved[w].errors = <<>>
    /\ LET out == Call(routes[route[w]].endpoint, solved[w].args, fake_items_db) IN
       /\ fake_items_db' = out.db
       /\ Finish(w, Response(200, out.result))
    /\ ran' = [ran EXCEPT ![w] = routes[route[w]].endpoint]
    /\ UNCHANGED <<routes, req, route, solved, memo>>

Step(w) ==
    Match(w) \/ RefuseBody(w) \/ Solve(w) \/ Reject(w) \/ Invoke(w) \/ Return(w)

\* one worker serving every request of the model, one after another
Next ==
    \/ Receive("w1", Requests)
    \/ Step("w1")

Spec == Init /\ [][Next]_vars

(***************************************************************************)
(* Two workers serving a few requests concurrently, repeated at will.  A   *)
(* finished GET request is remembered with its response, to be compared    *)
(* with the response of any later or concurrent repetition.                *)
(***************************************************************************)
Get1(path, query) == Request("GET", path, query, JAbsent)

RepeatRequests ==
    { Get1(<< <<"items">>, <<>> >>, NoQuery),
      Get1(<< <<"items">>, <<>> >>, Query([skip |-> << <<"1">> >>, limit |-> << <<"2">> >>])),
      Get1(<< <<"items">>, <<>> >>, Query([skip |-> << <<"-", "1">> >>])),
      Get1(<< <<"items">>, <<"3">> >>, Query([q |-> << <<"x">> >>])),
      Get1(<< <<"users">>, <<"me">> >>, NoQuery),
      Get1(<< <<"path_items_v1">>, <<"0">> >>, Query([q |-> << <<"x">> >>])),
      Get1(<< <<"items">> >>, NoQuery),
      Request("POST", << <<"items">>, <<>> >>, NoQuery, GoodItem),
      Request("POST", << <<"items">>, <<>> >>, NoQuery, JArr),
      Request("POST", << <<"items">>, <<>> >>, NoQuery, Malformed),
      Request("PUT", << <<"body_items_v4">>, <<"3">> >>, NoQuery,
              Present([item |-> GoodItem])),
      Request("PUT", << <<"users">>, <<"me">> >>, NoQuery, JAbsent) }

\* a finished GET request and its response are remembered
Remember(w) ==
    /\ pc[w] = "done"
    /\ req[w].method = "GET"
    /\ memo' = Some([req |-> req[w], resp |-> resp[w]])
    /\ UNCHANGED <<fake_items_db, routes, pc, req, route, solved, ran, resp>>

NextRepeat ==
    \E w \in Workers : Receive(w, RepeatRequests) \/ Step(w) \/ Remember(w)

SpecRepeat == Init /\ [][NextRepeat]_vars

(***************************************************************************)
(* Properties.                                                             *)
(***************************************************************************)
\* worker w has answered the request of method m on path p
Answered(w, m, p) == pc[w] = "done" /\ req[w].method = m /\ req[w].path = p

\* worker w has answered a request of method m on /head/<one non-empty segment>
AnsweredUnder(w, m, head) ==
    /\ pc[w] = "done"
    /\ req[w].method = m
    /\ Len(req[w].path) = 2
    /\ req[w].path[1] = <<head>>
    /\ req[w].path[2] # <<>>

\* the value of key k of a query string given at most once, None when not given
Arg(w, k) == req[w].query[k]

\* C1: routing is first-match-wins in registration order: GET /users/me is
\* answered by read_user_me with {"user_id": "the current user"} and read_user
\* never runs with user_id = "me"; every other GET /users/<x> with a single
\* segment x is answered by read_user, which echoes x.
C1_LiteralRouteWins ==
    \A w \in Workers :
        /\ ran[w] = "read_user" => solved[w].args.user_id # <<"me">>
        /\ AnsweredUnder(w, "GET", "users") =>
              IF req[w].path[2] = <<"me">>
              THEN /\ ran[w] = "read_user_me"
                   /\ resp[w] = Response(200, [user_id |-> <<"the current user">>])
              ELSE /\ ran[w] = "read_user"
                   /\ resp[w] = Response(200, [user_id |-> req[w].path[2]])

C1_Witness ==
    \E w \in Workers :
        /\ Answered(w, "GET", << <<"users">>, <<"me">> >>)
        /\ ran[w] = "read_user_me"

\* C5: GET /models/{model_name} answers 200 with "Deep Learning FTW!" for
\* alexnet, "LeCNN all the images" for lenet and "Have some residuals" for
\* resnet; any other value of the segment is answered 422 without running
\* get_model, so the fall-through branch is reached for resnet only.
C5_ModelMessages ==
    \A w \in Workers :
        /\ AnsweredUnder(w, "GET", "models") =>
              LET m == req[w].path[2]
                  says(text) == /\ ran[w] = "get_model"
                                /\ resp[w] = Response(200, [model_name |-> m,
                                                            message |-> text])
              IN  CASE m = <<"alexnet">> -> says(<<"Deep Learning FTW!">>)
                    [] m = <<"lenet">>   -> says(<<"LeCNN all the images">>)
                    [] m = <<"resnet">>  -> says(<<"Have some residuals">>)
                    [] OTHER             -> resp[w].status = 422 /\ ran[w] = ""
        /\ (ran[w] = "get_model" /\ resp[w].body.message = <<"Have some residuals">>)
              => req[w].path[2] = <<"resnet">>

C5_Witness ==
    \E w \in Workers :
        /\ Answered(w, "GET", << <<"models">>, <<"resnet">> >>)
        /\ ran[w] = "get_model"
        /\ resp[w].body.message = <<"Have some residuals">>

\* C7 as stated: every request whose method and path match no registered
\* route together is answered 404 and runs no endpoint.
C7_UnroutedIs404 ==
    \A w \in Workers :
        (pc[w] = "done" /\ Full(Routes, req[w]) = {}) =>
            (resp[w].status = 404 /\ ran[w] = "")

\* C7, amended: a request whose path matches no registered pattern, with its
\* trailing slash as sent or toggled, is answered 404; a request whose path
\* matches a registered pattern under other methods only (POST /users/me,
\* GET /body_items_v1/3, PUT /models/alexnet) is answered 405; neither runs
\* an endpoint.
C7_UnroutedIs404Or405 ==
    \A w \in Workers :
        pc[w] = "done" =>
            LET r == req[w]
                toggled == [r EXCEPT !.path = ToggleSlash(r.path)]
            IN  /\ (Partial(Routes, r) = {}
                      /\ (IsRoot(r.path) \/ Partial(Routes, toggled) = {}))
                      => (resp[w].status = 404 /\ ran[w] = "")
                /\ (Partial(Routes, r) # {} /\ Full(Routes, r) = {})
                      => (resp[w].status = 405 /\ ran[w] = "")
                /\ Full(Routes, r) = {} => ran[w] = ""
                /\ r.path[1] = <<"nope">> => (resp[w].status = 404 /\ ran[w] = "")
                /\ ( \/ (r.method = "POST" /\ r.path = << <<"users">>, <<"me">> >>)
                     \/ (r.method = "GET" /\ r.path = << <<"body_items_v1">>, <<"3">> >>)
                     \/ (r.method = "PUT" /\ r.path = << <<"models">>, <<"alexnet">> >>) )
                      => (resp[w].status = 405 /\ ran[w] = "")

C7_Witness ==
    \E w \in Workers :
        /\ Answered(w, "POST", << <<"users">>, <<"me">> >>)
        /\ resp[w].status = 405

\* the integers a client may write in the model, and the integer a text writes
IntRange == (0 - Span - Len(FakeItemsDb))..(1000 + Span)
IntTexts == {IntText(n) : n \in IntRange}
IntOf(t) == CHOOSE n \in IntRange : IntText(n) = t

\* the text t writes an integer within lo..hi
WritesIn(t, lo, hi) == t \in IntTexts /\ IntOf(t) \in lo..hi

\* the text t writes a float within lo/10 .. hi/10, in tenths or in units
WritesTenthsIn(t, lo, hi) ==
    \/ \E n \in lo..hi : t = FloatText(n, 1)
    \/ \E n \in IntRange : 10 * n \in lo..hi /\ t = IntText(n)

\* C4 as stated: GET /path_items_v1/{item_id}?q=<q> with an integer item_id
\* in 1..1000 and any supplied q answers 200 with exactly {"item_id": item_id,
\* "q": q}; any other item_id and any request without q answer 422.
C4_EchoesEveryQ ==
    \A w \in Workers :
        AnsweredUnder(w, "GET", "path_items_v1") =>
            LET id == req[w].path[2]
                q  == Arg(w, "q")
            IN  IF WritesIn(id, 1, 1000) /\ q # None
                THEN /\ resp[w].status = 200
                     /\ DOMAIN resp[w].body = {"item_id", "q"}
                     /\ resp[w].body.item_id = IntOf(id)
                     /\ resp[w].body.q = q[1]
                ELSE resp[w].status = 422

\* C4, amended: with an integer item_id in 1..1000 and a supplied q the answer
\* is 200 with exactly {"item_id": item_id, "q": q} when q is not empty and
\* exactly {"item_id": item_id} when q is the empty string; any other item_id
\* and any request without q answer 422.
C4_EchoesNonEmptyQ ==
    \A w \in Workers :
        AnsweredUnder(w, "GET", "path_items_v1") =>
            LET id == req[w].path[2]
                q  == Arg(w, "q")
            IN  IF WritesIn(id, 1, 1000) /\ q # None
                THEN /\ resp[w].status = 200
                     /\ ran[w] = "read_items_path_v1"
                     /\ resp[w].body.item_id = IntOf(id)
                     /\ IF q[1] # <<>>
                        THEN /\ DOMAIN resp[w].body = {"item_id", "q"}
                             /\ resp[w].body.q = q[1]
                        ELSE DOMAIN resp[w].body = {"item_id"}
                ELSE resp[w].status = 422 /\ ran[w] = ""

C4_Witness ==
    \E w \in Workers :
        /\ Answered(w, "GET", << <<"path_items_v1">>, <<"5">> >>)
        /\ Arg(w, "q") = << <<"x">> >>
        /\ resp[w] = Response(200, [item_id |-> 5, q |-> <<"x">>])

\* the fields of GET /path_items_v2/{item_id} that the request gets wrong
FailingV2(w) ==
    (IF WritesIn(req[w].path[2], 0, 1000) THEN {} ELSE {<<"path", "item_id">>})
    \cup (IF Arg(w, "q") # None THEN {} ELSE {<<"query", "q">>})
    \cup (IF /\ Arg(w, "size") # None
             /\ WritesTenthsIn(Arg(w, "size")[1], 11, 105)
          THEN {} ELSE {<<"query", "size">>})

Locations(errors) == {errors[i].loc : i \in 1..Len(errors)}

\* C3: a validation failure is reported in aggregate, one entry for each
\* failing field and none omitted: on GET /path_items_v2/{item_id}, for every
\* combination of a bad item_id, an absent q and an absent or out-of-range
\* size, the locations of the 422 response are exactly the failing fields;
\* no 422 response names a location twice.
C3_EveryFailingField ==
    \A w \in Workers :
        /\ (pc[w] = "done" /\ solved[w].done /\ resp[w].status = 422) =>
              Cardinality(Locations(resp[w].body)) = Len(resp[w].body)
        /\ AnsweredUnder(w, "GET", "path_items_v2") =>
              IF FailingV2(w) = {} THEN resp[w].status = 200
              ELSE /\ resp[w].status = 422
                   /\ Locations(resp[w].body) = FailingV2(w)
                   /\ Len(resp[w].body) = Cardinality(FailingV2(w))

C3_Witness ==
    \E w \in Workers :
        /\ AnsweredUnder(w, "GET", "path_items_v2")
        /\ resp[w].status = 422
        /\ Cardinality(FailingV2(w)) = 3
        /\ Len(resp[w].body) = 3

\* a JSON value that is an item with a string name and a number price, whose
\* description and tax, where given, are a string and a number (or null)
IsItem(v) ==
    /\ v.t = "obj"
    /\ Get(v, "name").t = "str"
    /\ Get(v, "price").t = "num"
    /\ Get(v, "description").t \in {"absent", "null", "str"}
    /\ Get(v, "tax").t \in {"absent", "null", "num"}

IsUser(v) ==
    /\ v.t = "obj"
    /\ Get(v, "username").t = "str"
    /\ Get(v, "full_name").t \in {"absent", "null", "str"}

\* a JSON value that is a positive integer, as a number or written in a string
IsPositive(v) ==
    \/ v.t = "num" /\ v.n.e = 0 /\ v.n.m > 0
    \/ v.t = "str" /\ v.s \in IntTexts /\ IntOf(v.s) > 0

\* the request of w to PUT /body_items_v3/{item_id} is right in every parameter
ValidV3(w) ==
    LET b == req[w].body IN
    /\ req[w].path[2] \in IntTexts
    /\ b.t = "obj"
    /\ IsItem(Get(b, "item"))
    /\ IsUser(Get(b, "user"))
    /\ IsPositive(Get(b, "importance"))

\* C2: validation of every path, query and body parameter completes before
\* the endpoint runs: an endpoint has run only after validation finished
\* without an error, and a request with a failing parameter is answered 422
\* without its endpoint running; on PUT /body_items_v3/{item_id} and GET
\* /path_items_v2/{item_id} the endpoint runs exactly for the requests that
\* are right in every parameter.
C2_ValidatedBeforeInvoked ==
    \A w \in Workers :
        /\ ran[w] # "" =>
              (solved[w].done /\ solved[w].errors = <<>> /\ resp[w].status = 200)
        /\ (pc[w] = "done" /\ solved[w].done /\ solved[w].errors # <<>>) =>
              (resp[w].status = 422 /\ ran[w] = "")
        /\ (AnsweredUnder(w, "PUT", "body_items_v3") /\ req[w].body.t # "malformed") =>
              IF ValidV3(w) THEN ran[w] = "update_item_body_v3"
              ELSE ran[w] = "" /\ resp[w].status = 422
        /\ AnsweredUnder(w, "GET", "path_items_v2") =>
              IF FailingV2(w) = {} THEN ran[w] = "read_items_path_v2"
              ELSE ran[w] = "" /\ resp[w].status = 422

\* a request to /body_items_v3 right in item_id, item and user but with
\* importance 0 was refused and the endpoint did not run
C2_Witness ==
    \E w \in Workers :
        /\ AnsweredUnder(w, "PUT", "body_items_v3")
        /\ req[w].path[2] \in IntTexts
        /\ req[w].body.t = "obj"
        /\ IsItem(Get(req[w].body, "item"))
        /\ IsUser(Get(req[w].body, "user"))
        /\ Get(req[w].body, "importance") = JNum(FltOfInt(0))
        /\ resp[w].status = 422
        /\ ran[w] = ""

\* the item the endpoint receives for the JSON item v: absent optional fields
\* take their default None
ItemOf(v) ==
    [name        |-> Get(v, "name").s,
     description |-> IF IsNone(Get(v, "description")) THEN None
                     ELSE Some(Get(v, "description").s),
     price       |-> Get(v, "price").n,
     tax         |-> IF IsNone(Get(v, "tax")) THEN None ELSE Some(Get(v, "tax").n)]

C9_ItemDescription ==
    \A w \in Workers :
        (/\ AnsweredUnder(w, "GET", "items")
         /\ (Arg(w, "short") = None \/ IsBoolText(Arg(w, "short")[1]))) =>
            LET q     == Arg(w, "q")
                short == Arg(w, "short") # None /\ Arg(w, "short")[1] \in TrueWords
                body  == resp[w].body
            IN  /\ resp[w].status = 200
                /\ ran[w] = "read_item"
                /\ body.item_id = req[w].path[2]
                /\ "description" \in DOMAIN body
                /\ body.description =
                      IF short THEN <<"short description">>
                      ELSE <<"This is an amazing item that has a long description">>
                /\ "q" \in DOMAIN body <=> (q # None /\ q[1] # <<>>)
                /\ "q" \in DOMAIN body => body.q = q[1]
                /\ DOMAIN body \subseteq {"item_id", "description", "q"}

C9_Witness ==
    \E w \in Workers :
        /\ AnsweredUnder(w, "GET", "items")
        /\ Arg(w, "short") = << <<"true">> >>
        /\ Arg(w, "q") = << <<>> >>
        /\ resp[w].status = 200
        /\ resp[w].body.description = <<"short description">>

Min(a, b) == IF a < b THEN a ELSE b

\* the integer a slice parameter takes: the one written, or the default
SliceArg(w, k, default) ==
    IF Arg(w, k) = None THEN default ELSE IntOf(Arg(w, k)[1])

\* C10: for all integers skip and limit, negative ones included (defaults 0
\* and 10), GET /items/ answers 200 with a contiguous sublist of
\* fake_items_db in its order; for skip >= 0 and limit >= 0 it is the
\* elements at positions skip .. min(skip + limit, 4) - 1, so at most limit
\* elements, and none when skip >= 4 or limit = 0.
C10_SliceOfItems ==
    \A w \in Workers :
        (/\ Answered(w, "GET", << <<"items">>, <<>> >>)
         /\ (Arg(w, "skip") = None \/ Arg(w, "skip")[1] \in IntTexts)
         /\ (Arg(w, "limit") = None \/ Arg(w, "limit")[1] \in IntTexts)) =>
            LET skip  == SliceArg(w, "skip", 0)
                limit == SliceArg(w, "limit", 10)
                n     == Len(FakeItemsDb)
                body  == resp[w].body
            IN  /\ resp[w].status = 200
                /\ ran[w] = "read_item_slice"
                /\ \E i \in 1..(n + 1), j \in 0..n : body = SubSeq(FakeItemsDb, i, j)
                /\ (skip >= 0 /\ limit >= 0) =>
                      /\ body = SubSeq(FakeItemsDb, skip + 1, Min(skip + limit, n))
                      /\ Len(body) <= limit
                      /\ (skip >= n \/ limit = 0) => body = <<>>

\* skip = -3, limit = 2: the second and third element
C10_Witness ==
    \E w \in Workers :
        /\ Answered(w, "GET", << <<"items">>, <<>> >>)
        /\ Arg(w, "skip") = << <<"-", "3">> >>
        /\ Arg(w, "limit") = << <<"2">> >>
        /\ resp[w] = Response(200, SubSeq(FakeItemsDb, 2, 3))

\* C6: repeating a GET request with the same path and query gets the same
\* response, whatever other requests are served before, between or at the
\* same time: no endpoint writes fake_items_db or the route table, which
\* keep their initial values.
C6_RepeatableGet ==
    /\ fake_items_db = FakeItemsDb
    /\ routes = Routes
    /\ \A w \in Workers :
          (pc[w] = "done" /\ memo # None /\ memo[1].req = req[w]) =>
              resp[w] = memo[1].resp

\* a remembered GET /items/?skip=1&limit=2 answered again by one worker while
\* the other has validated a POST
C6_Witness ==
    \E w \in Workers, v \in Workers :
        /\ memo # None
        /\ pc[w] = "done"
        /\ req[w] = memo[1].req
        /\ Arg(w, "skip") = << <<"1">> >>
        /\ resp[w].status = 200
        /\ pc[v] = "validated"
        /\ req[v].method = "POST"

=============================================================================
